---- MODULE Spec2Model ----
(***************************************************************************)
(* Guess lifecycle of the bitcoin guess predictor: the makeGuess and       *)
(* resolveGuess Lambda handlers, the DynamoDB helpers they call and the    *)
(* EventBridge Scheduler request, as a state machine.  Every handler is    *)
(* split at its awaits on shared state (store reads and writes, scheduler  *)
(* requests), so that concurrent invocations interleave as they do in      *)
(* separate Lambda executions.                                             *)
(***************************************************************************)
EXTENDS Integers, Sequences, FiniteSets, TLC

(* ---------------------------- bounds ----------------------------------- *)
MaxCreates == 2
MaxSettles == 2
MaxGuessIds == 2
MaxInvocations == 3
MaxFaults == 1
MaxPriceStep == 1
MaxInitScore == 1
MaxAdjusts == 2
MaxAdjustScore == 2
MaxReads == 3
MaxClockTicks == 3
MaxFetches == 2
RandomGrain == 8

(* ------------------------ program constants ---------------------------- *)
GUESS_RESOLUTION_DELAY == 60000
SCORE_WIN == 1
SCORE_LOSS == 0 - 1
HTTP_OK == 200
HTTP_CREATED == 201
HTTP_BAD_REQUEST == 400
HTTP_FORBIDDEN == 403
HTTP_NOT_FOUND == 404
HTTP_CONFLICT == 409
HTTP_INTERNAL_SERVER_ERROR == 500
FALLBACK_PRICE_MIN == 45000
FALLBACK_PRICE_MAX == 55000
CACHE_TTL == 200000
REQUEST_TIMEOUT == 5000

EVENTBRIDGE_SOURCE == "bitcoin-guess-predictor"
RESOLVE_GUESS_DETAIL_TYPE == "Resolve Guess"
SCHEDULER_INPUT_SOURCE == "eventbridge-scheduler"

(* ------------------------- value universes ----------------------------- *)
\* JavaScript undefined for string-valued fields; absent numeric or object
\* attributes are the empty sequence, present ones a one-element sequence.
Undefined == "undefined"
Absent == << >>
Some(v) == << v >>
Get(o) == o[1]
Falsy(x) == x = Undefined \/ x = ""

\* Player identifiers: two registered players and one well-formed identifier
\* that has no player record.
Registered == {"p1", "p2"}
UUIDs == Registered \cup {"p0"}
\* Guess identifiers (uuidv4 values), in the order in which fresh ones are drawn
GuessIdOf == << "g1", "g2", "g3", "g4" >>
GuessIds == {GuessIdOf[i] : i \in 1..(IF MaxGuessIds < 4 THEN MaxGuessIds ELSE 4)}
Prices == {FALLBACK_PRICE_MIN + i : i \in 0..MaxPriceStep}

VARIABLES
  guesses,    \* Guesses table: guessId -> item
  players,    \* Players table: playerId -> item
  schedules,  \* EventBridge Scheduler: the schedules created so far
  creates,    \* makeGuess invocations
  settles,    \* resolveGuess invocations
  now,        \* wall clock, milliseconds
  faults,     \* store requests rejected so far
  priceCache, \* bitcoin.js priceCache of one execution environment
  reads,      \* getCachedBitcoinPrice calls of that environment, in order
  fetches     \* getBitcoinPriceWithFallback calls, in order

vars == << guesses, players, schedules, creates, settles, now, faults,
           priceCache, reads, fetches >>

(* ------------------------- response.js --------------------------------- *)
successResponse(data, statusCode) ==
  [statusCode |-> statusCode, success |-> TRUE, code |-> Undefined, data |-> data]

errorResponse(statusCode, errorCode) ==
  [statusCode |-> statusCode, success |-> FALSE, code |-> errorCode, data |-> Absent]

(* ------------------------- validation.js ------------------------------- *)
isValidUUID(uuid) == uuid \in UUIDs

\* direction.toLowerCase().trim() on the request directions of the model
DirectionInputs == {"up", "Down ", "sideways", Undefined}
toLowerCaseTrim(direction) ==
  CASE direction = "Down " -> "down"
    [] OTHER -> direction

validateGuessDirection(direction) ==
  IF Falsy(direction)
  THEN [isValid |-> FALSE, normalizedDirection |-> Undefined]
  ELSE LET normalizedDirection == toLowerCaseTrim(direction)
       IN  IF normalizedDirection # "up" /\ normalizedDirection # "down"
           THEN [isValid |-> FALSE, normalizedDirection |-> Undefined]
           ELSE [isValid |-> TRUE, normalizedDirection |-> normalizedDirection]

validateMakeGuessRequest(body) ==
  IF Falsy(body.userId) \/ ~isValidUUID(body.userId)
  THEN [isValid |-> FALSE, userId |-> Undefined, direction |-> Undefined]
  ELSE LET directionValidation == validateGuessDirection(body.direction)
       IN  IF ~directionValidation.isValid
           THEN [isValid |-> FALSE, userId |-> Undefined, direction |-> Undefined]
           ELSE [isValid |-> TRUE, userId |-> body.userId,
                 direction |-> directionValidation.normalizedDirection]

(* ------------------------- dynamodb.js reads --------------------------- *)
\* An empty item stands in for a missing one (result.Item || {})
getPlayerByIdOrEmpty(playerId) ==
  Some(IF playerId \in DOMAIN players THEN players[playerId]
       ELSE [score |-> Absent, lastActive |-> 0])

\* lines 176-191
getPlayerById(playerId) ==
  IF playerId \in DOMAIN players THEN Some(players[playerId]) ELSE Absent

getGuessById(guessId) ==
  IF guessId \in DOMAIN guesses THEN Some(guesses[guessId]) ELSE Absent

\* Query on PlayerGuessesIndex (playerId, status) with status = ACTIVE, Limit 1
ActiveItems(playerId) ==
  {g \in DOMAIN guesses : guesses[g].playerId = playerId /\ guesses[g].status = "ACTIVE"}

\* The query with a status value no item carries
getActiveGuessWrongStatus(playerId) ==
  LET items == {g \in DOMAIN guesses :
                  guesses[g].playerId = playerId /\ guesses[g].status = "active"}
  IN  IF items # {} THEN Some(guesses[CHOOSE g \in items : TRUE]) ELSE Absent

getActiveGuessForPlayer(playerId) ==
  IF ActiveItems(playerId) # {}
  THEN Some(guesses[CHOOSE g \in ActiveItems(playerId) : TRUE])
  ELSE Absent

(* ------------------------- bitcoin.js ---------------------------------- *)
\* What the CoinGecko request comes to: a transport error, a timeout, a body
\* that is not JSON, or a JSON body with or without bitcoin and bitcoin.usd
PrimaryOutcomes ==
  {[kind |-> k, bitcoin |-> FALSE, usd |-> Absent, usdType |-> "number"] :
     k \in {"error", "timeout", "unparsable"}}
  \cup {[kind |-> "json", bitcoin |-> FALSE, usd |-> Absent, usdType |-> "number"]}
  \cup {[kind |-> "json", bitcoin |-> TRUE, usd |-> u, usdType |-> "number"] :
          u \in {Absent, Some(0)} \cup {Some(p) : p \in Prices}}

\* JSON bodies whose bitcoin.usd is a string; the CoinGecko endpoint is
\* documented to send a number, so these are drawn only where the shape of
\* the response is the subject
NonNumericOutcomes ==
  {[kind |-> "json", bitcoin |-> TRUE, usd |-> Some(t), usdType |-> "string"] :
     t \in {"", "n/a"}}

\* Truthiness of bitcoin.usd, a number or a string that may be missing
TruthyUsd(outcome) ==
  IF outcome.usdType = "string"
  THEN outcome.usd # Absent /\ Get(outcome.usd) # ""
  ELSE outcome.usd # Absent /\ Get(outcome.usd) # 0

\* Truthiness of a number that may be null or undefined
Truthy(o) == o # Absent /\ Get(o) # 0

Resolved(price) == [resolved |-> TRUE, price |-> Some(price), error |-> Undefined]
Rejected(error) == [resolved |-> FALSE, price |-> Absent, error |-> error]

\* Any usd field is taken as the price, also 0
getCurrentBitcoinPriceAcceptingZero(outcome) ==
  IF outcome.kind = "json" /\ outcome.bitcoin /\ outcome.usd # Absent
  THEN Resolved(Get(outcome.usd))
  ELSE Rejected("Invalid response format from CoinGecko API")

\* lines 8-52
getCurrentBitcoinPrice(outcome) ==
  IF outcome.kind = "error"
  THEN Rejected("Failed to fetch Bitcoin price from CoinGecko API")
  ELSE IF outcome.kind = "timeout"
  THEN Rejected("Request timeout while fetching Bitcoin price")
  ELSE IF outcome.kind = "unparsable"
  THEN Rejected("Failed to parse CoinGecko API response")
  ELSE IF outcome.bitcoin /\ TruthyUsd(outcome)
  THEN Resolved(Get(outcome.usd))
  ELSE Rejected("Invalid response format from CoinGecko API")

\* lines 67-69: the mock price, in the model one of the prices
MockPrices == Prices

\* A timeout of the primary source is passed on to the caller
fetchPriceRethrowingTimeout(outcome, mockPrice) ==
  LET primary == getCurrentBitcoinPrice(outcome)
  IN  IF primary.resolved \/ outcome.kind = "timeout" THEN primary
      ELSE Resolved(mockPrice)

\* lines 58-74: getBitcoinPriceWithFallback for one outcome of the primary
\* source and one draw of the mock price
fetchPriceWithFallback(outcome, mockPrice) ==
  LET primary == getCurrentBitcoinPrice(outcome)
  IN  IF primary.resolved THEN primary ELSE Resolved(mockPrice)

\* getBitcoinPriceWithFallback resolves with the primary price or with the
\* mock price; either way the caller receives one of the prices.
getBitcoinPriceWithFallback ==
  {Get(r.price) : r \in {x \in {fetchPriceWithFallback(o, m) :
                                   o \in PrimaryOutcomes, m \in MockPrices} :
                           x.resolved}}

\* lines 79-83
EmptyCache == [price |-> Absent, timestamp |-> Absent]

\* line 93
CacheValid(cache, dateNow) ==
  /\ Truthy(cache.price)
  /\ Truthy(cache.timestamp)
  /\ (dateNow - Get(cache.timestamp)) < CACHE_TTL

\* The cached price returned with the time of the read
ServeCachedStampedNow(cache, dateNow) ==
  [price |-> cache.price, timestamp |-> Some(dateNow)]

\* lines 95-98 and 122-125
ServeCached(cache, dateNow) ==
  [price |-> cache.price, timestamp |-> cache.timestamp]

\* Time that passes before a read starts
Elapses == {0, REQUEST_TIMEOUT, 5 * REQUEST_TIMEOUT, CACHE_TTL}

NoRead ==
  [pc |-> "done", start |-> 0, entry |-> EmptyCache, fetched |-> FALSE,
   primary |-> Undefined, primaryFailed |-> FALSE, fetch |-> Absent,
   result |-> Absent, threw |-> FALSE]

\* An execution environment runs one invocation at a time, and the handler
\* awaits its read: a read starts when the one before it has returned
ReadInFlight == reads # << >> /\ reads[Len(reads)].pc = "fetching"

\* lines 89-99: Date.now() and the cache check
ReadStart(elapsed) ==
  /\ Len(reads) < MaxReads
  /\ ~ReadInFlight
  /\ now' = now + elapsed
  /\ LET dateNow == now + elapsed
         call == [NoRead EXCEPT !.start = dateNow, !.entry = priceCache]
     IN  IF CacheValid(priceCache, dateNow)
         THEN reads' = Append(reads,
                 [call EXCEPT !.result = Some(ServeCached(priceCache, dateNow))])
         ELSE reads' = Append(reads,
                 [call EXCEPT !.pc = "fetching", !.fetched = TRUE])
  /\ UNCHANGED << fetches, guesses, players, schedules, creates, settles, faults, priceCache >>

\* lines 101-130: the fetch returns; the cache takes the time of line 90
ReadFetch(outcome, mockPrice) ==
  /\ ReadInFlight
  /\ LET r == Len(reads)
         fetch == fetchPriceWithFallback(outcome, mockPrice)
         call == [reads[r] EXCEPT !.pc = "done", !.primary = outcome.kind,
                    !.primaryFailed = ~getCurrentBitcoinPrice(outcome).resolved,
                    !.fetch = Some(fetch)]
         fresh == [price |-> fetch.price, timestamp |-> Some(reads[r].start)]
     IN  IF fetch.resolved
         THEN /\ priceCache' = fresh
              /\ reads' = [reads EXCEPT ![r] = [call EXCEPT !.result = Some(fresh)]]
         ELSE IF Truthy(priceCache.price)
         THEN /\ UNCHANGED priceCache
              /\ reads' = [reads EXCEPT ![r] =
                    [call EXCEPT !.result = Some(ServeCached(priceCache, reads[r].start))]]
         ELSE /\ UNCHANGED priceCache
              /\ reads' = [reads EXCEPT ![r] = [call EXCEPT !.threw = TRUE]]
  /\ UNCHANGED << fetches, guesses, players, schedules, creates, settles, now, faults >>

\* The price comes through getCachedBitcoinPrice, in one step
CachedPrice(cache, dateNow) ==
  IF CacheValid(cache, dateNow)
  THEN {[price |-> Get(cache.price), cache |-> cache]}
  ELSE {[price |-> p, cache |-> [price |-> Some(p), timestamp |-> Some(dateNow)]] :
          p \in getBitcoinPriceWithFallback}

\* makeGuess.js lines 51-52, resolveGuess.js lines 80-81: the handlers await
\* getBitcoinPriceWithFallback(); the price cache of their execution
\* environment is neither consulted nor assigned
UncachedPrice(cache, dateNow) ==
  {[price |-> p, cache |-> cache] : p \in getBitcoinPriceWithFallback}

(* ------------------------- makeGuess.js -------------------------------- *)
IdleCreate ==
  [pc |-> "idle", userId |-> Undefined, requested |-> Undefined,
   guess |-> Absent, timestamp |-> Absent,
   written |-> FALSE, scheduled |-> "no", resp |-> Absent]

\* Request bodies of the model
CreateBodies == [userId : UUIDs \cup {Undefined}, direction : DirectionInputs]

\* Invocations take the process slots in order, MaxInvocations in all
Invoked ==
  Cardinality({c \in DOMAIN creates : creates[c].pc # "idle"})
  + Cardinality({s \in DOMAIN settles : settles[s].pc # "idle"})

Started(procs, i) ==
  /\ Invoked < MaxInvocations
  /\ IF i = 1 THEN TRUE ELSE procs[i - 1].pc # "idle"

\* uuidv4(): a fresh identifier, or (vanishingly unlikely) one drawn before
DrawnIds ==
  DOMAIN guesses \cup
  {Get(creates[c].guess).guessId : c \in {d \in DOMAIN creates : creates[d].guess # Absent}}

uuidv4 ==
  LET fresh == {i \in 1..Len(GuessIdOf) : GuessIdOf[i] \in GuessIds \ DrawnIds}
  IN  DrawnIds \cup
      (IF fresh = {} THEN {}
       ELSE {GuessIdOf[CHOOSE i \in fresh : \A j \in fresh : i <= j]})

\* The delay added as 60 milliseconds
NewGuessResolvingTooSoon(guessId, userId, direction, currentPrice, timestamp) ==
  [guessId |-> guessId, playerId |-> userId, direction |-> direction,
   currentPrice |-> currentPrice, status |-> "ACTIVE", createdAt |-> timestamp,
   resolveAt |-> timestamp + 60,
   resolvePrice |-> Absent, resolvedAt |-> Absent]

\* lines 57-65: the guess object
NewGuess(guessId, userId, direction, currentPrice, timestamp) ==
  [guessId |-> guessId, playerId |-> userId, direction |-> direction,
   currentPrice |-> currentPrice, status |-> "ACTIVE", createdAt |-> timestamp,
   resolveAt |-> timestamp + 60 * 1000,
   resolvePrice |-> Absent, resolvedAt |-> Absent]

\* lines 17-65: parse, validate, getPlayerById, getActiveGuessForPlayer, the
\* price and the guess object.  The two store reads are one step (a player
\* record is never removed), the price fetch and the construction of the
\* guess touch no shared state; the step ends where createGuess is awaited.
CreateInvoke(c, body) ==
  /\ creates[c].pc = "idle"
  /\ Started(creates, c)
  /\ LET validation == validateMakeGuessRequest(body)
     IN  IF ~validation.isValid
         THEN /\ creates' = [creates EXCEPT ![c].pc = "done",
                   ![c].resp = Some(errorResponse(HTTP_BAD_REQUEST, "VALIDATION_ERROR"))]
              /\ UNCHANGED priceCache
         ELSE IF getPlayerById(validation.userId) = Absent
         THEN /\ creates' = [creates EXCEPT ![c].pc = "done",
                   ![c].userId = validation.userId,
                   ![c].resp = Some(errorResponse(HTTP_NOT_FOUND, "PLAYER_NOT_FOUND"))]
              /\ UNCHANGED priceCache
         ELSE IF getActiveGuessForPlayer(validation.userId) # Absent
         THEN /\ creates' = [creates EXCEPT ![c].pc = "done",
                   ![c].userId = validation.userId,
                   ![c].resp = Some(errorResponse(HTTP_CONFLICT, "ACTIVE_GUESS_EXISTS"))]
              /\ UNCHANGED priceCache
         ELSE \E fetched \in UncachedPrice(priceCache, now), guessId \in uuidv4 :
                /\ creates' = [creates EXCEPT ![c].pc = "put",
                     ![c].userId = validation.userId,
                     ![c].requested = body.direction,
                     ![c].timestamp = Some(now),
                     ![c].guess = Some(NewGuess(guessId, validation.userId,
                                         validation.direction, fetched.price, now))]
                /\ priceCache' = fetched.cache
  /\ UNCHANGED << fetches, guesses, players, schedules, settles, now, faults, reads >>

\* The put without its ConditionExpression
createGuessNeverFails(guess) == FALSE

\* dynamodb.js createGuess: put with attribute_not_exists(guessId)
createGuessFails(guess) == guess.guessId \in DOMAIN guesses

\* The put acknowledged before the item is in the table
createGuessNotStored(guess) == guesses

\* dynamodb.js createGuess: the item is put under its guessId
createGuess(guess) ==
  [g \in DOMAIN guesses \cup {guess.guessId} |->
     IF g = guess.guessId THEN guess ELSE guesses[g]]

\* lines 67-68 and the catch of lines 92-95
CreatePut(c) ==
  /\ creates[c].pc = "put"
  /\ LET guess == Get(creates[c].guess)
     IN  IF createGuessFails(guess)
         THEN /\ creates' = [creates EXCEPT ![c].pc = "done",
                   ![c].resp = Some(errorResponse(HTTP_CONFLICT, "CONFLICT_ERROR"))]
              /\ UNCHANGED guesses
         ELSE /\ guesses' = createGuess(guess)
              /\ creates' = [creates EXCEPT ![c].pc = "schedule", ![c].written = TRUE]
  /\ UNCHANGED << fetches, players, schedules, settles, now, faults, priceCache, reads >>

(* ------------------------- eventbridge.js ------------------------------ *)
\* new Date(Date.now() + DELAY).toISOString().slice(0, 19): whole seconds
runAt(dateNow) ==
  (dateNow + GUESS_RESOLUTION_DELAY) - ((dateNow + GUESS_RESOLUTION_DELAY) % 1000)

\* Target.Input, lines 45-51
SchedulerInput(guessId, userId, currentPrice, scheduledAt) ==
  [guessId |-> guessId, userId |-> userId, currentPrice |-> currentPrice,
   scheduledAt |-> scheduledAt, source |-> SCHEDULER_INPUT_SOURCE]

\* params, lines 36-53
ScheduleParams(guessId, userId, currentPrice, dateNow) ==
  [Name |-> guessId, runAt |-> runAt(dateNow),
   Input |-> SchedulerInput(guessId, userId, currentPrice, dateNow)]

\* The scheduling error reaches the outer catch instead
makeGuessResultPropagating(createdGuess, timestamp, scheduleError) ==
  IF scheduleError
  THEN errorResponse(HTTP_INTERNAL_SERVER_ERROR, "SCHEDULING_ERROR")
  ELSE successResponse([message |-> "Guess recorded", guessId |-> createdGuess.guessId,
                        timestamp |-> timestamp], HTTP_CREATED)

\* makeGuess.js lines 70-87: a scheduling error is caught and logged
makeGuessResult(createdGuess, timestamp, scheduleError) ==
  successResponse([message |-> "Guess recorded", guessId |-> createdGuess.guessId,
                   timestamp |-> timestamp], HTTP_CREATED)

\* makeGuess.js lines 70-87 with scheduleGuessResolution; getAccountId or
\* createSchedule may reject (a schedule name that exists always does)
CreateSchedule(c) ==
  /\ creates[c].pc = "schedule"
  /\ LET guess == Get(creates[c].guess)
         params == ScheduleParams(guess.guessId, creates[c].userId,
                                  guess.currentPrice, now)
     IN  \E accepted \in BOOLEAN :
           LET scheduleError ==
                 ~accepted \/ \E sch \in schedules : sch.Name = params.Name
           IN  /\ schedules' = IF scheduleError THEN schedules
                                ELSE schedules \cup {params}
               /\ creates' = [creates EXCEPT ![c].pc = "done",
                     ![c].scheduled = IF scheduleError THEN "failed" ELSE "ok",
                     ![c].resp = Some(makeGuessResult(guess, Get(creates[c].timestamp),
                                                      scheduleError))]
  /\ UNCHANGED << fetches, guesses, players, settles, now, faults, priceCache, reads >>

(* ------------------------- resolveGuess.js ----------------------------- *)
IdleSettle ==
  [pc |-> "idle", trigger |-> Undefined, guessId |-> Undefined, userId |-> Undefined,
   guess |-> Absent, currentPrice |-> Absent, status |-> Undefined,
   scoreChange |-> 0, calledAt |-> Absent,
   guessUpdate |-> "none", scoreUpdate |-> "none",
   updatedPlayer |-> Absent, scoreDelta |-> 0, resp |-> Absent]

\* The Lambda event of a Scheduler delivery is the schedule's Input
SchedulerEvent(input) ==
  [source |-> input.source, detailType |-> Undefined, body |-> Absent,
   detail |-> Absent, guessId |-> input.guessId, userId |-> input.userId]

\* POST /api/resolve: body is the request text, json says whether it parses
HttpEvent(json, guessId, userId) ==
  [source |-> Undefined, detailType |-> Undefined,
   body |-> Some([json |-> json, guessId |-> guessId, userId |-> userId]),
   detail |-> Absent, guessId |-> Undefined, userId |-> Undefined]

\* An EventBridge bus event of the configured source and detail type
BusEvent(guessId, playerId) ==
  [source |-> EVENTBRIDGE_SOURCE, detailType |-> RESOLVE_GUESS_DETAIL_TYPE,
   body |-> Absent, detail |-> Some([guessId |-> guessId, playerId |-> playerId]),
   guessId |-> Undefined, userId |-> Undefined]

SettleIdInputs == GuessIds \cup {Undefined}
SettleUserInputs == Registered \cup {Undefined}

DirectEvents ==
  {HttpEvent(TRUE, g, u) : g \in SettleIdInputs, u \in SettleUserInputs}
  \cup {HttpEvent(FALSE, Undefined, Undefined)}
  \cup {BusEvent(g, u) : g \in SettleIdInputs, u \in SettleUserInputs}

\* lines 28-55: which parameters the handler takes from the event
ParseEvent(event) ==
  LET params ==
        IF event.source = EVENTBRIDGE_SOURCE /\ event.detailType = RESOLVE_GUESS_DETAIL_TYPE
        THEN [error |-> Absent, guessId |-> Get(event.detail).guessId,
              userId |-> Get(event.detail).playerId]
        ELSE IF event.body # Absent
        THEN IF Get(event.body).json
             THEN [error |-> Absent, guessId |-> Get(event.body).guessId,
                   userId |-> Get(event.body).userId]
             ELSE [error |-> Some(errorResponse(HTTP_BAD_REQUEST, Undefined)),
                   guessId |-> Undefined, userId |-> Undefined]
        ELSE [error |-> Some(errorResponse(HTTP_BAD_REQUEST, "INVALID_EVENT")),
              guessId |-> Undefined, userId |-> Undefined]
  IN  IF params.error = Absent /\ (Falsy(params.guessId) \/ Falsy(params.userId))
      THEN [error |-> Some(errorResponse(HTTP_BAD_REQUEST, "MISSING_PARAMETERS")),
            guessId |-> Undefined, userId |-> Undefined]
      ELSE params

\* The ownership check left out
BelongsToAnyUser(guess, userId) == TRUE

\* lines 65-68
BelongsToUser(guess, userId) == guess.playerId = userId

\* Only a won guess counts as resolved
AlreadyResolvedIfWon(guess) == guess.status = "WON"

\* lines 70-78
AlreadyResolved(guess) == guess.status # "ACTIVE"

ResultOf(status) == IF status = "WON" THEN "win" ELSE "loss"

alreadyResolvedResponse(guess) ==
  successResponse([message |-> "Guess already resolved",
                   result |-> ResultOf(guess.status)], HTTP_OK)

\* The comparison with >= for >
priceWentUpOrEqual(currentPrice, initialPrice) == currentPrice >= initialPrice

\* lines 88-95
priceWentUp(currentPrice, initialPrice) == currentPrice > initialPrice

\* The direction of the guess left out of the comparison
guessWasCorrectIgnoringDirection(direction, wentUp) == wentUp

\* lines 90-91
guessWasCorrect(direction, wentUp) ==
  (direction = "up" /\ wentUp) \/ (direction = "down" /\ ~wentUp)

\* lines 27-107: the event is parsed, the guess is read from the store, the
\* price is fetched, the outcome is computed and both updates are started
\* (each takes its timestamp when it is called).  The price fetch touches no
\* shared state; the step ends where the two store updates are awaited.
SettleBegin(s, trigger, event, time) ==
  /\ settles[s].pc = "idle"
  /\ Started(settles, s)
  /\ LET params == ParseEvent(event)
         guess == getGuessById(params.guessId)
         base == [settles[s] EXCEPT !.trigger = trigger,
                    !.guessId = params.guessId, !.userId = params.userId]
     IN  IF params.error # Absent
         THEN /\ settles' = [settles EXCEPT ![s] =
                  [base EXCEPT !.pc = "done", !.resp = params.error]]
              /\ UNCHANGED priceCache
         ELSE IF guess = Absent
         THEN /\ settles' = [settles EXCEPT ![s] =
                  [base EXCEPT !.pc = "done",
                     !.resp = Some(errorResponse(HTTP_NOT_FOUND, "GUESS_NOT_FOUND"))]]
              /\ UNCHANGED priceCache
         ELSE IF ~BelongsToUser(Get(guess), params.userId)
         THEN /\ settles' = [settles EXCEPT ![s] =
                  [base EXCEPT !.pc = "done",
                     !.resp = Some(errorResponse(HTTP_FORBIDDEN, "UNAUTHORIZED"))]]
              /\ UNCHANGED priceCache
         ELSE IF AlreadyResolved(Get(guess))
         THEN /\ settles' = [settles EXCEPT ![s] =
                  [base EXCEPT !.pc = "done",
                     !.resp = Some(alreadyResolvedResponse(Get(guess)))]]
              /\ UNCHANGED priceCache
         ELSE \E fetched \in UncachedPrice(priceCache, time) :
                LET currentPrice == fetched.price
                    correct == guessWasCorrect(Get(guess).direction,
                                 priceWentUp(currentPrice, Get(guess).currentPrice))
                IN  /\ settles' = [settles EXCEPT ![s] =
                          [base EXCEPT !.pc = "update", !.guess = guess,
                             !.currentPrice = Some(currentPrice),
                             !.status = IF correct THEN "WON" ELSE "LOST",
                             !.scoreChange = IF correct THEN SCORE_WIN ELSE SCORE_LOSS,
                             !.calledAt = Some(time),
                             !.guessUpdate = "pending",
                             !.scoreUpdate = "pending"]]
                    /\ priceCache' = fetched.cache
  /\ now' = time
  /\ UNCHANGED << fetches, guesses, players, schedules, creates, faults, reads >>

\* HTTP POST /api/resolve or a bus event
SettleInvoke(s) ==
  \E event \in DirectEvents : SettleBegin(s, "direct", event, now)

\* The Scheduler delivers a schedule's Input when the clock has reached runAt
\* (time passes until then), and may deliver it again later
SchedulerFire(s) ==
  \E sch \in schedules :
     SettleBegin(s, "scheduler", SchedulerEvent(sch.Input),
                 IF now < sch.runAt THEN sch.runAt ELSE now)

\* lines 109-125
guessResolvedResponse(status, updatedPlayer, guess, currentPrice) ==
  successResponse([message |-> "Guess resolved", result |-> ResultOf(status),
                   newScore |-> updatedPlayer.score,
                   initial |-> guess.currentPrice, final |-> currentPrice], HTTP_OK)

\* Promise.allSettled for Promise.all: no rejection reaches the catch
AnsweredAllSettled(proc) ==
  IF proc.resp # Absent THEN proc
  ELSE IF proc.guessUpdate \in {"ok", "failed"} /\ proc.scoreUpdate \in {"ok", "failed"}
  THEN [proc EXCEPT !.pc = "done",
          !.resp = Some(successResponse([message |-> "Guess resolved",
                                         result |-> ResultOf(proc.status)], HTTP_OK))]
  ELSE proc

\* Promise.all of lines 104-107 and the catch of lines 127-142: the handler
\* answers when both updates have resolved or as soon as one has rejected
Answered(proc) ==
  IF proc.resp # Absent THEN proc
  ELSE IF proc.guessUpdate = "failed" \/ proc.scoreUpdate = "failed"
  THEN [proc EXCEPT !.pc = "done",
          !.resp = Some(errorResponse(HTTP_INTERNAL_SERVER_ERROR, "INTERNAL_ERROR"))]
  ELSE IF proc.guessUpdate = "ok" /\ proc.scoreUpdate = "ok"
  THEN [proc EXCEPT !.pc = "done",
          !.resp = Some(guessResolvedResponse(proc.status, Get(proc.updatedPlayer),
                                              Get(proc.guess), Get(proc.currentPrice)))]
  ELSE proc

\* A store request is served, or rejected while the fault budget lasts
StoreOutcomes == IF faults < MaxFaults THEN BOOLEAN ELSE {TRUE}
Fault(storeOk) == faults' = IF storeOk THEN faults ELSE faults + 1

\* The SET without resolvedAt
updateGuessResolutionWithoutTime(guessId, status, resolvePrice, resolvedAt) ==
  [guesses EXCEPT ![guessId].status = status,
                  ![guessId].resolvePrice = Some(resolvePrice)]

\* dynamodb.js updateGuessResolution: an unconditional SET on the item
updateGuessResolution(guessId, status, resolvePrice, resolvedAt) ==
  [guesses EXCEPT ![guessId].status = status,
                  ![guessId].resolvePrice = Some(resolvePrice),
                  ![guessId].resolvedAt = Some(resolvedAt)]

SettleUpdateGuess(s) ==
  /\ settles[s].guessUpdate = "pending"
  /\ \E storeOk \in StoreOutcomes :
       /\ Fault(storeOk)
       /\ IF storeOk
          THEN /\ guesses' = updateGuessResolution(settles[s].guessId, settles[s].status,
                                Get(settles[s].currentPrice), Get(settles[s].calledAt))
               /\ settles' = [settles EXCEPT ![s] =
                     Answered([settles[s] EXCEPT !.guessUpdate = "ok"])]
          ELSE /\ UNCHANGED guesses
               /\ settles' = [settles EXCEPT ![s] =
                     Answered([settles[s] EXCEPT !.guessUpdate = "failed"])]
  /\ UNCHANGED << fetches, players, schedules, creates, now, priceCache, reads >>

\* dynamodb.js updatePlayerScore
if_not_exists(attribute, default) == IF attribute = Absent THEN default ELSE Get(attribute)

\* The decrement without its condition
DecrementUnconditional(player) == TRUE

\* ConditionExpression of the decrement, line 390
DecrementCondition(player) == player.score # Absent /\ Get(player.score) >= 1

\* The increment applied twice
IncrementItemDoubled(player, scoreChange, timestamp) ==
  [player EXCEPT !.score = Some(if_not_exists(player.score, 0) + 2 * scoreChange),
                 !.lastActive = timestamp]

\* UpdateExpression of the increment, line 367
IncrementItem(player, scoreChange, timestamp) ==
  [player EXCEPT !.score = Some(if_not_exists(player.score, 0) + scoreChange),
                 !.lastActive = timestamp]

\* UpdateExpression of the decrement, line 389
DecrementItem(player, timestamp) ==
  [player EXCEPT !.score = Some(if_not_exists(player.score, 0) - 1),
                 !.lastActive = timestamp]

\* The follow-up update without the lastActive assignment
FallbackItemKeepingLastActive(player, timestamp) ==
  [player EXCEPT !.score = Some(if_not_exists(player.score, 0))]

\* The follow-up update writing :zero whether or not a score exists
FallbackItemResetting(player, timestamp) ==
  [player EXCEPT !.lastActive = timestamp, !.score = Some(0)]

\* UpdateExpression of the fallback update, line 409
FallbackItem(player, timestamp) ==
  [player EXCEPT !.lastActive = timestamp,
                 !.score = Some(if_not_exists(player.score, 0))]

\* The update resolves with ALL_NEW attributes; scoreDelta records by how
\* much it changed the stored score
Scored(proc, oldItem, item) ==
  [proc EXCEPT !.scoreUpdate = "ok", !.updatedPlayer = Some(item),
               !.scoreDelta = Get(item.score) - if_not_exists(oldItem.score, 0)]

\* lines 359-403: the first update of updatePlayerScore
SettleUpdateScore(s) ==
  /\ settles[s].scoreUpdate = "pending"
  /\ LET playerId == settles[s].userId
         player == players[playerId]
         timestamp == Get(settles[s].calledAt)
     IN  \E storeOk \in StoreOutcomes :
           /\ Fault(storeOk)
           /\ IF ~storeOk
              THEN /\ UNCHANGED players
                   /\ settles' = [settles EXCEPT ![s] =
                         Answered([settles[s] EXCEPT !.scoreUpdate = "failed"])]
              ELSE IF settles[s].scoreChange >= 0
              THEN LET item == IncrementItem(player, settles[s].scoreChange, timestamp)
                   IN  /\ players' = [players EXCEPT ![playerId] = item]
                       /\ settles' = [settles EXCEPT ![s] =
                             Answered(Scored(settles[s], players[playerId], item))]
              ELSE IF DecrementCondition(player)
              THEN LET item == DecrementItem(player, timestamp)
                   IN  /\ players' = [players EXCEPT ![playerId] = item]
                       /\ settles' = [settles EXCEPT ![s] =
                             Answered(Scored(settles[s], players[playerId], item))]
              ELSE /\ UNCHANGED players
                   /\ settles' = [settles EXCEPT ![s].scoreUpdate = "fallback"]
  /\ UNCHANGED << fetches, guesses, schedules, creates, now, priceCache, reads >>

\* lines 403-421: the update after ConditionalCheckFailedException
SettleScoreFallback(s) ==
  /\ settles[s].scoreUpdate = "fallback"
  /\ LET playerId == settles[s].userId
         timestamp == Get(settles[s].calledAt)
     IN  \E storeOk \in StoreOutcomes :
           /\ Fault(storeOk)
           /\ IF storeOk
              THEN LET item == FallbackItem(players[playerId], timestamp)
                   IN  /\ players' = [players EXCEPT ![playerId] = item]
                       /\ settles' = [settles EXCEPT ![s] =
                             Answered(Scored(settles[s], players[playerId], item))]
              ELSE /\ UNCHANGED players
                   /\ settles' = [settles EXCEPT ![s] =
                         Answered([settles[s] EXCEPT !.scoreUpdate = "failed"])]
  /\ UNCHANGED << fetches, guesses, schedules, creates, now, priceCache, reads >>

(* ------------------------- the system ---------------------------------- *)
\* Players registered earlier, with the score of their earlier guesses
Init ==
  /\ guesses = << >>
  /\ players \in [Registered -> [score : {Some(n) : n \in 0..MaxInitScore},
                                  lastActive : {0}]]
  /\ schedules = {}
  /\ creates = [c \in 1..MaxCreates |-> IdleCreate]
  /\ settles = [s \in 1..MaxSettles |-> IdleSettle]
  /\ now = 0
  /\ faults = 0
  /\ priceCache = EmptyCache
  /\ reads = << >>
  /\ fetches = << >>

Next ==
  \/ \E c \in DOMAIN creates, body \in CreateBodies : CreateInvoke(c, body)
  \/ \E c \in DOMAIN creates : CreatePut(c)
  \/ \E c \in DOMAIN creates : CreateSchedule(c)
  \/ \E s \in DOMAIN settles : SettleInvoke(s)
  \/ \E s \in DOMAIN settles : SchedulerFire(s)
  \/ \E s \in DOMAIN settles : SettleUpdateGuess(s)
  \/ \E s \in DOMAIN settles : SettleUpdateScore(s)
  \/ \E s \in DOMAIN settles : SettleScoreFallback(s)

Spec == Init /\ [][Next]_vars

(* ------------------ updatePlayerScore on its own ----------------------- *)
\* updatePlayerScore(playerId, scoreChange) called by concurrent callers for
\* any stored score (an item may carry no score attribute) and any delta.
ScoreChanges == {SCORE_WIN, SCORE_LOSS, 2 * SCORE_LOSS}
StoredScores == {Absent} \cup {Some(n) : n \in 0..MaxAdjustScore}

\* line 360: the caller's timestamp is taken when the function is entered
AdjustCall(s, playerId, scoreChange, elapsed) ==
  /\ settles[s].pc = "idle"
  /\ IF s = 1 THEN TRUE ELSE settles[s - 1].pc # "idle"
  /\ now' = now + elapsed
  /\ settles' = [settles EXCEPT ![s] =
        [IdleSettle EXCEPT !.pc = "update", !.trigger = "adjust",
           !.userId = playerId, !.scoreChange = scoreChange,
           !.calledAt = Some(now + elapsed), !.scoreUpdate = "pending"]]
  /\ UNCHANGED << fetches, guesses, players, schedules, creates, faults, priceCache, reads >>

AdjustInit ==
  /\ guesses = << >>
  /\ players \in [Registered -> [score : StoredScores, lastActive : {0}]]
  /\ schedules = {}
  /\ creates = [c \in 1..MaxCreates |-> IdleCreate]
  /\ settles = [s \in 1..MaxAdjusts |-> IdleSettle]
  /\ now = 1
  /\ faults = 0
  /\ priceCache = EmptyCache
  /\ reads = << >>
  /\ fetches = << >>

AdjustNext ==
  \/ \E s \in DOMAIN settles, playerId \in Registered,
        scoreChange \in ScoreChanges, elapsed \in 0..1 :
        AdjustCall(s, playerId, scoreChange, elapsed)
  \/ \E s \in DOMAIN settles : SettleUpdateScore(s)
  \/ \E s \in DOMAIN settles : SettleScoreFallback(s)

AdjustSpec == AdjustInit /\ [][AdjustNext]_vars

(* ------------------ makeGuess with a running clock --------------------- *)
\* Time passes between the steps of the creates, half a second at a time
Elapse ==
  /\ now < MaxClockTicks * 500
  /\ now' = now + 500
  /\ UNCHANGED << fetches, guesses, players, schedules, creates, settles, faults,
                  priceCache, reads >>

ScheduleInit ==
  /\ guesses = << >>
  /\ players = [p \in Registered |-> [score |-> Some(0), lastActive |-> 0]]
  /\ schedules = {}
  /\ creates = [c \in 1..MaxCreates |-> IdleCreate]
  /\ settles = [s \in 1..MaxSettles |-> IdleSettle]
  /\ now = 0
  /\ faults = 0
  /\ priceCache = EmptyCache
  /\ reads = << >>
  /\ fetches = << >>

ScheduleNext ==
  \/ \E c \in DOMAIN creates, body \in CreateBodies : CreateInvoke(c, body)
  \/ \E c \in DOMAIN creates : CreatePut(c)
  \/ \E c \in DOMAIN creates : CreateSchedule(c)
  \/ Elapse

ScheduleSpec == ScheduleInit /\ [][ScheduleNext]_vars

(* ------------------ getBitcoinPriceWithFallback on its own ------------- *)
\* Math.random() is random / RandomGrain, at least 0 and below 1
RandomDraws == 0..(RandomGrain - 1)

\* The span taken from 0 instead of FALLBACK_PRICE_MIN
scaledMockPriceOverRange(random) ==
  FALLBACK_PRICE_MIN * RandomGrain + random * FALLBACK_PRICE_MAX

\* lines 67-68: mockPrice, in units of 1 / RandomGrain dollars
scaledMockPrice(random) ==
  FALLBACK_PRICE_MIN * RandomGrain
  + random * (FALLBACK_PRICE_MAX - FALLBACK_PRICE_MIN)

\* line 69: Math.round(mockPrice * 100) / 100, in cents; Math.round takes a
\* half upwards
roundedPrice(random) ==
  (2 * 100 * scaledMockPrice(random) + RandomGrain) \div (2 * RandomGrain)

\* One call: the primary source comes to outcome, Math.random() to random.
\* The mock price is in cents here; a string taken as the price is recorded
\* by its type.
FetchCall(outcome, random) ==
  /\ Len(fetches) < MaxFetches
  /\ LET primary == getCurrentBitcoinPrice(outcome)
         result == fetchPriceWithFallback(outcome, roundedPrice(random))
     IN  fetches' = Append(fetches,
           [kind |-> outcome.kind,
            numericField |-> outcome.kind = "json" /\ outcome.bitcoin
                             /\ outcome.usdType = "number" /\ outcome.usd # Absent,
            primaryResolved |-> primary.resolved,
            resolved |-> result.resolved,
            fallback |-> ~primary.resolved /\ result.resolved,
            priceType |-> IF primary.resolved THEN outcome.usdType ELSE "number",
            cents |-> IF primary.resolved THEN Absent ELSE result.price])
  /\ UNCHANGED << guesses, players, schedules, creates, settles, now, faults,
                  priceCache, reads >>

PriceInit ==
  /\ guesses = << >>
  /\ players = [p \in Registered |-> [score |-> Some(0), lastActive |-> 0]]
  /\ schedules = {}
  /\ creates = [c \in 1..MaxCreates |-> IdleCreate]
  /\ settles = [s \in 1..MaxSettles |-> IdleSettle]
  /\ now = 1
  /\ faults = 0
  /\ priceCache = EmptyCache
  /\ reads = << >>
  /\ fetches = << >>

PriceNext ==
  \/ \E outcome \in PrimaryOutcomes, random \in RandomDraws :
        FetchCall(outcome, random)
  \/ \E outcome \in NonNumericOutcomes, random \in RandomDraws :
        FetchCall(outcome, random)

PriceSpec == PriceInit /\ [][PriceNext]_vars

(* ------------------ getCachedBitcoinPrice on its own ------------------- *)
\* The reads of one execution environment, from its cold start
CacheInit ==
  /\ guesses = << >>
  /\ players = [p \in Registered |-> [score |-> Some(0), lastActive |-> 0]]
  /\ schedules = {}
  /\ creates = [c \in 1..MaxCreates |-> IdleCreate]
  /\ settles = [s \in 1..MaxSettles |-> IdleSettle]
  /\ now = 1
  /\ faults = 0
  /\ priceCache = EmptyCache
  /\ reads = << >>
  /\ fetches = << >>

CacheNext ==
  \/ \E elapsed \in Elapses : ReadStart(elapsed)
  \/ \E outcome \in PrimaryOutcomes, mockPrice \in MockPrices :
        ReadFetch(outcome, mockPrice)

CacheSpec == CacheInit /\ [][CacheNext]_vars

(* ------------------ concurrent getCachedBitcoinPrice calls -------------- *)
\* Callers that do not wait for one another: a call may start while the
\* fetches of earlier calls are awaited, and the fetches return in any order.
\* Time that passes before a call starts
RefreshElapses == {0, REQUEST_TIMEOUT \div 5, CACHE_TTL}

RefreshesInFlight == {r \in DOMAIN reads : reads[r].pc = "fetching"}

\* The entry keeps the later of the two fetch instants
FreshEntryKeepingLatestInstant(cache, price, start) ==
  [price |-> price,
   timestamp |-> IF cache.timestamp # Absent /\ Get(cache.timestamp) > start
                 THEN cache.timestamp ELSE Some(start)]

\* lines 105-109: priceCache = { price, timestamp: now, ttl }
FreshEntry(cache, price, start) ==
  [price |-> price, timestamp |-> Some(start)]

\* lines 89-99: Date.now() and the cache check.  A request that stays silent
\* for REQUEST_TIMEOUT is destroyed, so less time than that passes while a
\* fetch is awaited.
RefreshStart(elapsed) ==
  /\ Len(reads) < MaxReads
  /\ RefreshesInFlight # {} => elapsed < REQUEST_TIMEOUT
  /\ now' = now + elapsed
  /\ LET dateNow == now + elapsed
         call == [NoRead EXCEPT !.start = dateNow, !.entry = priceCache]
     IN  IF CacheValid(priceCache, dateNow)
         THEN reads' = Append(reads,
                 [call EXCEPT !.result = Some(ServeCached(priceCache, dateNow))])
         ELSE reads' = Append(reads,
                 [call EXCEPT !.pc = "fetching", !.fetched = TRUE])
  /\ UNCHANGED << fetches, guesses, players, schedules, creates, settles, faults, priceCache >>

\* lines 101-130: the fetch of call r returns; the cache takes the time that
\* call r read at line 90
RefreshReturn(r, outcome, mockPrice) ==
  /\ r \in RefreshesInFlight
  /\ LET fetch == fetchPriceWithFallback(outcome, mockPrice)
         call == [reads[r] EXCEPT !.pc = "done", !.primary = outcome.kind,
                    !.primaryFailed = ~getCurrentBitcoinPrice(outcome).resolved,
                    !.fetch = Some(fetch)]
         fresh == FreshEntry(priceCache, fetch.price, reads[r].start)
     IN  IF fetch.resolved
         THEN /\ priceCache' = fresh
              /\ reads' = [reads EXCEPT ![r] =
                    [call EXCEPT !.result =
                       Some([price |-> fetch.price, timestamp |-> Some(reads[r].start)])]]
         ELSE IF Truthy(priceCache.price)
         THEN /\ UNCHANGED priceCache
              /\ reads' = [reads EXCEPT ![r] =
                    [call EXCEPT !.result = Some(ServeCached(priceCache, reads[r].start))]]
         ELSE /\ UNCHANGED priceCache
              /\ reads' = [reads EXCEPT ![r] = [call EXCEPT !.threw = TRUE]]
  /\ UNCHANGED << fetches, guesses, players, schedules, creates, settles, now, faults >>

RefreshInit ==
  /\ guesses = << >>
  /\ players = [p \in Registered |-> [score |-> Some(0), lastActive |-> 0]]
  /\ schedules = {}
  /\ creates = [c \in 1..MaxCreates |-> IdleCreate]
  /\ settles = [s \in 1..MaxSettles |-> IdleSettle]
  /\ now = 1
  /\ faults = 0
  /\ priceCache = EmptyCache
  /\ reads = << >>
  /\ fetches = << >>

RefreshNext ==
  \/ \E elapsed \in RefreshElapses : RefreshStart(elapsed)
  \/ \E r \in DOMAIN reads, outcome \in PrimaryOutcomes, mockPrice \in MockPrices :
        RefreshReturn(r, outcome, mockPrice)

RefreshSpec == RefreshInit /\ [][RefreshNext]_vars

(* ------------------------- properties ---------------------------------- *)
Settled(status) == status = "WON" \/ status = "LOST"

\* Settle invocation s takes its first step: it leaves idle
SettleBegins(s) == settles[s].pc = "idle" /\ settles'[s].pc # "idle"

\* Create invocation c takes its first step
CreateBegins(c) == creates[c].pc = "idle" /\ creates'[c].pc # "idle"

\* The settle step changed nothing in the store, fetched no price and
\* started no update
NoSettleEffect(s) ==
  /\ guesses' = guesses
  /\ players' = players
  /\ settles'[s].pc = "done"
  /\ settles'[s].currentPrice = Absent
  /\ settles'[s].guessUpdate = "none"
  /\ settles'[s].scoreUpdate = "none"

\* C1: in every reachable state each player owns at most one guess whose
\* stored status is ACTIVE, whatever the interleaving of creates and settles.
C1_AtMostOneActiveGuess ==
  \A p \in UUIDs : Cardinality(ActiveItems(p)) <= 1

\* C2: of the settle invocations for one guess at most one changes the
\* player's score; an invocation that loses the race mutates no score.
C2_ScoreAdjustedOncePerGuess ==
  \A s1, s2 \in DOMAIN settles :
     (s1 # s2 /\ settles[s1].guessId # Undefined
        /\ settles[s1].guessId = settles[s2].guessId)
     => ~(settles[s1].scoreDelta # 0 /\ settles[s2].scoreDelta # 0)

\* C3: a settle invoked by the Scheduler with the payload create handed to it
\* is not rejected as an invalid event or for missing parameters: once it has
\* answered, the answer is a success and the guess is WON or LOST.
C3_SchedulerDeliverySettles ==
  \A s \in DOMAIN settles :
     (settles[s].trigger = "scheduler" /\ settles[s].resp # Absent)
     => /\ Get(settles[s].resp).code \notin {"INVALID_EVENT", "MISSING_PARAMETERS"}
        /\ Get(settles[s].resp).success
        /\ settles[s].guess # Absent
        /\ Settled(guesses[Get(settles[s].guess).guessId].status)

\* C4: once a guess is WON or LOST no step changes its status, resolvePrice
\* or resolvedAt.
C4_TerminalGuessNeverChanges ==
  [][\A g \in DOMAIN guesses :
       Settled(guesses[g].status)
       => /\ guesses'[g].status = guesses[g].status
          /\ guesses'[g].resolvePrice = guesses[g].resolvePrice
          /\ guesses'[g].resolvedAt = guesses[g].resolvedAt]_vars

\* The first answer "Guess resolved" for guess g came from s1, the answer
\* "Guess already resolved" from s2, and no other invocation resolved g
SettledTwice(s1, s2) ==
  /\ s1 # s2
  /\ settles[s1].guessId = settles[s2].guessId
  /\ settles[s1].resp # Absent /\ settles[s2].resp # Absent
  /\ Get(settles[s1].resp).success /\ Get(settles[s2].resp).success
  /\ Get(settles[s1].resp).data.message = "Guess resolved"
  /\ Get(settles[s2].resp).data.message = "Guess already resolved"
  /\ \A s3 \in DOMAIN settles \ {s1, s2} :
        settles[s3].guessId = settles[s1].guessId => settles[s3].guessUpdate = "none"

\* C5: a settle of a guess that is already WON or LOST answers with a success
\* that reports the stored outcome (the outcome the first settle reported),
\* fetches no price and changes neither the guess nor the player.
C5_SecondSettleIsIdempotent ==
  /\ [][\A s \in DOMAIN settles :
          LET g == settles'[s].guessId
          IN  (/\ SettleBegins(s)
               /\ g \in DOMAIN guesses
               /\ guesses[g].playerId = settles'[s].userId
               /\ Settled(guesses[g].status))
              => /\ NoSettleEffect(s)
                 /\ settles'[s].resp = Some(successResponse(
                       [message |-> "Guess already resolved",
                        result |-> IF guesses[g].status = "WON" THEN "win" ELSE "loss"],
                       HTTP_OK))]_vars
  /\ [](\A s1, s2 \in DOMAIN settles :
          SettledTwice(s1, s2)
          => Get(settles[s2].resp).data.result = Get(settles[s1].resp).data.result)

C5_Witness ==
  \E s1, s2 \in DOMAIN settles :
     /\ SettledTwice(s1, s2)
     /\ settles[s2].currentPrice = Absent
     /\ settles[s2].scoreUpdate = "none"

\* C6: in every reachable state every player's stored score is an integer
\* greater than or equal to 0.
C6_ScoreNeverNegative ==
  \A p \in DOMAIN players :
     players[p].score # Absent /\ Get(players[p].score) \in Nat

\* A loss was applied to a player whose score was 0
C6_Witness ==
  \E s \in DOMAIN settles :
     /\ settles[s].scoreChange = SCORE_LOSS
     /\ settles[s].scoreUpdate = "ok"
     /\ settles[s].scoreDelta = 0
     /\ Get(players[settles[s].userId].score) = 0

\* C7: with snapshot price s and resolution price r, settle marks an up guess
\* WON iff r > s and a down guess WON iff r <= s, LOST otherwise, and reports
\* win or loss accordingly.
C7_OutcomeFollowsPrices ==
  \A s \in DOMAIN settles :
     settles[s].currentPrice # Absent
     => LET guess == Get(settles[s].guess)
            r == Get(settles[s].currentPrice)
        IN  /\ settles[s].status \in {"WON", "LOST"}
            /\ guess.direction = "up" => (settles[s].status = "WON" <=> r > guess.currentPrice)
            /\ guess.direction = "down" => (settles[s].status = "WON" <=> r <= guess.currentPrice)
            /\ settles[s].guessUpdate = "ok"
               => /\ Settled(guesses[guess.guessId].status)
            /\ (settles[s].resp # Absent /\ Get(settles[s].resp).success)
               => (Get(settles[s].resp).data.result = "win" <=> settles[s].status = "WON")

\* An up guess was settled at an unchanged price and marked LOST
C7_Witness ==
  \E s \in DOMAIN settles :
     /\ settles[s].currentPrice # Absent
     /\ Get(settles[s].currentPrice) = Get(settles[s].guess).currentPrice
     /\ Get(settles[s].guess).direction = "up"
     /\ settles[s].status = "LOST"
     /\ settles[s].guessUpdate = "ok"

\* Some settle invocation has written guess g
WrittenBySettle(g) ==
  \E s \in DOMAIN settles : settles[s].guessId = g /\ settles[s].guessUpdate = "ok"

\* C8: when arming the scheduler fails after the guess was written, create
\* answers 201 with the guess identifier and the creation timestamp, and the
\* guess stays in the store as it was written, ACTIVE until a settle changes it.
C8_SchedulingFailureKeepsGuess ==
  \A c \in DOMAIN creates :
     creates[c].scheduled = "failed"
     => LET guess == Get(creates[c].guess)
        IN  /\ creates[c].pc = "done"
            /\ creates[c].resp = Some(successResponse(
                  [message |-> "Guess recorded", guessId |-> guess.guessId,
                   timestamp |-> guess.createdAt], HTTP_CREATED))
            /\ guess.guessId \in DOMAIN guesses
            /\ guesses[guess.guessId].playerId = creates[c].userId
            /\ guesses[guess.guessId].createdAt = guess.createdAt
            /\ ~WrittenBySettle(guess.guessId) => guesses[guess.guessId] = guess
            /\ \A sch \in schedules : sch.Name # guess.guessId

C8_Witness ==
  \E c \in DOMAIN creates :
     /\ creates[c].scheduled = "failed"
     /\ creates[c].pc = "done"
     /\ guesses[Get(creates[c].guess).guessId].status = "ACTIVE"

\* C9: a create for a player who has an ACTIVE guess answers 409
\* ACTIVE_GUESS_EXISTS and has no effect: it writes no guess, fetches no
\* price (builds no guess object) and makes no scheduler request.
C9_ActiveGuessConflict ==
  [][\A c \in DOMAIN creates :
       (/\ CreateBegins(c)
        /\ creates'[c].userId \in Registered
        /\ ActiveItems(creates'[c].userId) # {})
       => /\ creates'[c] = [IdleCreate EXCEPT !.pc = "done",
                !.userId = creates'[c].userId,
                !.resp = Some(errorResponse(HTTP_CONFLICT, "ACTIVE_GUESS_EXISTS"))]
          /\ guesses' = guesses
          /\ schedules' = schedules]_vars

C9_Witness ==
  \E c \in DOMAIN creates :
     /\ creates[c].resp = Some(errorResponse(HTTP_CONFLICT, "ACTIVE_GUESS_EXISTS"))
     /\ ActiveItems(creates[c].userId) # {}

\* C10: a settle for a guess identifier that is not in the store answers 404
\* GUESS_NOT_FOUND, a settle whose player identifier is not the guess's owner
\* answers 403 UNAUTHORIZED whatever the guess's status; neither changes a
\* guess or a player nor fetches a price.
C10_SettleRejections ==
  [][\A s \in DOMAIN settles :
       LET g == settles'[s].guessId
       IN  (SettleBegins(s) /\ g # Undefined)
           => /\ g \notin DOMAIN guesses
                 => /\ NoSettleEffect(s)
                    /\ settles'[s].resp =
                         Some(errorResponse(HTTP_NOT_FOUND, "GUESS_NOT_FOUND"))
              /\ (g \in DOMAIN guesses /\ guesses[g].playerId # settles'[s].userId)
                 => /\ NoSettleEffect(s)
                    /\ settles'[s].resp =
                         Some(errorResponse(HTTP_FORBIDDEN, "UNAUTHORIZED"))]_vars

\* One settle was rejected as not found, one as unauthorized
C10_Witness ==
  \E s1, s2 \in DOMAIN settles :
     /\ settles[s1].resp = Some(errorResponse(HTTP_NOT_FOUND, "GUESS_NOT_FOUND"))
     /\ settles[s2].resp = Some(errorResponse(HTTP_FORBIDDEN, "UNAUTHORIZED"))

\* The value of a stored score, an absent one counting as 0
ScoreOf(item) == if_not_exists(item.score, 0)

\* Settle s has its first score update served by the store
ScoreUpdateServed(s) ==
  /\ settles[s].scoreUpdate = "pending"
  /\ settles'[s].scoreUpdate \in {"ok", "fallback"}

\* Settle s has its follow-up score update served by the store
ScoreFallbackServed(s) ==
  /\ settles[s].scoreUpdate = "fallback"
  /\ settles'[s].scoreUpdate = "ok"

\* C11: the score update of a settle raises the owner's score by exactly 1
\* for a win, lowers it by exactly 1 for a loss when the stored score is at
\* least 1 and leaves it at 0 when it is 0; it changes no other player's
\* score, and the newScore of the response is the score the update stored.
C11_SettleAdjustsOwnerScore ==
  /\ [][\A s \in DOMAIN settles :
          LET owner == settles[s].userId
              old == ScoreOf(players[owner])
              new == ScoreOf(players'[owner])
          IN  /\ ScoreUpdateServed(s) =>
                   /\ Get(settles[s].guess).playerId = owner
                   /\ settles[s].status = "WON" => new = old + 1
                   /\ settles[s].status = "LOST" /\ old >= 1 => new = old - 1
                   /\ settles[s].status = "LOST" /\ old = 0 => new = 0
                   /\ \A p \in Registered \ {owner} : players'[p] = players[p]
                   /\ settles'[s].scoreUpdate = "ok" =>
                        Get(settles'[s].updatedPlayer).score = players'[owner].score
              /\ ScoreFallbackServed(s) =>
                   /\ new = old
                   /\ \A p \in Registered \ {owner} : players'[p] = players[p]
                   /\ Get(settles'[s].updatedPlayer).score = players'[owner].score]_vars
  /\ [](\A s \in DOMAIN settles :
          (settles[s].resp # Absent /\ Get(settles[s].resp).statusCode = HTTP_OK
           /\ Get(settles[s].resp).data.message = "Guess resolved")
          => Get(settles[s].resp).data.newScore = Get(settles[s].updatedPlayer).score)

\* A settle answered with a win that took the score from 0 to 1, and one
\* answered with a loss that took the score from 1 to 0
C11_Witness ==
  \E s1, s2 \in DOMAIN settles :
     /\ settles[s1].resp # Absent /\ settles[s2].resp # Absent
     /\ Get(settles[s1].resp).statusCode = HTTP_OK
     /\ Get(settles[s2].resp).statusCode = HTTP_OK
     /\ settles[s1].status = "WON" /\ settles[s1].scoreDelta = 1
     /\ Get(settles[s1].resp).data.newScore = Some(1)
     /\ settles[s2].status = "LOST" /\ settles[s2].scoreDelta = 0 - 1

\* C12: a decrement that finds the stored score at 0 or absent changes
\* nothing by its conditional update, and its follow-up update sets
\* lastActive to the time of the adjustment and leaves the score at 0.
C12_DecrementAtZeroKeepsZero ==
  [][\A s \in DOMAIN settles :
       LET owner == settles[s].userId
           old == players[owner]
           new == players'[owner]
       IN  settles[s].scoreChange = SCORE_LOSS =>
             /\ (ScoreUpdateServed(s) /\ ScoreOf(old) = 0) =>
                   /\ settles'[s].scoreUpdate = "fallback"
                   /\ players' = players
             /\ ScoreFallbackServed(s) =>
                   /\ new.lastActive = Get(settles[s].calledAt)
                   /\ new.score = Some(ScoreOf(old))
                   /\ ScoreOf(old) = 0 => new.score = Some(0)]_vars

\* A lone decrement was served by its follow-up update: the score is 0 and
\* lastActive is the caller's time, later than the item's earlier lastActive
C12_Witness ==
  \E s \in DOMAIN settles :
     /\ settles[s].trigger = "adjust"
     /\ settles[s].scoreChange = SCORE_LOSS
     /\ settles[s].scoreUpdate = "ok"
     /\ settles[s].scoreDelta = 0
     /\ Get(settles[s].calledAt) = 2
     /\ players[settles[s].userId] = [score |-> Some(0), lastActive |-> 2]
     /\ \A t \in DOMAIN settles \ {s} : settles[t].pc = "idle"

\* The age of the cache entry a read found when it started
AgeAtStart(call) == call.start - Get(call.entry.timestamp)

\* C13: a read that starts after the entry's TTL has expired and whose
\* primary fetch fails returns the entry's price and fetch instant and
\* leaves the entry in the cache.
C13_StaleEntryServedOnFailure ==
  [][(ReadInFlight /\ ~ReadInFlight'
      /\ Truthy(priceCache.price)
      /\ reads'[Len(reads)].primaryFailed)
     => /\ reads'[Len(reads)].result = Some(priceCache)
        /\ ~reads'[Len(reads)].threw
        /\ priceCache' = priceCache]_vars

\* The read started while the entry it found was younger than the TTL
StartedWithinTTL(call) ==
  /\ Truthy(call.entry.price)
  /\ Truthy(call.entry.timestamp)
  /\ AgeAtStart(call) < CACHE_TTL

\* C14: two reads that start while the same cache entry is younger than the
\* TTL return the same price and the same fetch instant, those of the entry,
\* and neither calls the price source.
C14_ReadsWithinTTLAgree ==
  \A i, j \in DOMAIN reads :
     (StartedWithinTTL(reads[i]) /\ StartedWithinTTL(reads[j])
      /\ reads[i].entry = reads[j].entry)
     => /\ reads[i].result = reads[j].result
        /\ reads[i].result = Some(reads[i].entry)
        /\ ~reads[i].fetched /\ ~reads[j].fetched

\* Two reads at different times were served from the entry of a first read
C14_Witness ==
  /\ Len(reads) = 3
  /\ reads[1].fetched
  /\ ~reads[2].fetched /\ ~reads[3].fetched
  /\ reads[2].start < reads[3].start
  /\ reads[2].result = reads[3].result
  /\ reads[3].result = Some(priceCache)

\* C15: the time-to-live is 20 seconds: a read that finds an entry of age
\* 20 s or more attempts a fresh fetch, and one that finds a younger entry
\* is served from the cache.
C15_TTLIsTwentySeconds ==
  \A i \in DOMAIN reads :
     (Truthy(reads[i].entry.price) /\ Truthy(reads[i].entry.timestamp))
     => (reads[i].fetched <=> AgeAtStart(reads[i]) >= 20 * 1000)

\* C16: whatever the primary source does, the uncached price operation
\* resolves with a price and never rejects; when the primary source fails,
\* the price is within the fallback range.
C16_UncachedPriceNeverFails ==
  \A i \in DOMAIN reads :
     reads[i].fetch # Absent
     => /\ Get(reads[i].fetch).resolved
        /\ Get(reads[i].fetch).price # Absent
        /\ ~reads[i].threw
        /\ reads[i].primaryFailed =>
             Get(Get(reads[i].fetch).price) \in FALLBACK_PRICE_MIN..FALLBACK_PRICE_MAX

\* The operation returned prices after a timeout, after an unparsable body
\* and after a response without a price
C16_Witness ==
  /\ Len(reads) = 3
  /\ {reads[i].primary : i \in DOMAIN reads} = {"timeout", "unparsable", "json"}
  /\ \A i \in DOMAIN reads :
        reads[i].primaryFailed /\ Get(reads[i].fetch).price # Absent

\* Create c is for a well-formed identifier that has no player record
ForUnknownPlayer(proc) ==
  proc.userId # Undefined /\ proc.userId \notin DOMAIN players

\* C17: a create for an identifier without a player record is answered 404
\* PLAYER_NOT_FOUND at its first step, writes no guess and makes no
\* scheduler request, then or later.
C17_UnknownPlayerNotFound ==
  /\ [][\A c \in DOMAIN creates :
          (CreateBegins(c) /\ ForUnknownPlayer(creates'[c]))
          => /\ creates'[c].pc = "done"
             /\ creates'[c].resp = Some(errorResponse(HTTP_NOT_FOUND, "PLAYER_NOT_FOUND"))
             /\ guesses' = guesses
             /\ schedules' = schedules]_vars
  /\ [](\A c \in DOMAIN creates :
          ForUnknownPlayer(creates[c])
          => /\ ~creates[c].written
             /\ creates[c].scheduled = "no"
             /\ \A g \in DOMAIN guesses : guesses[g].playerId # creates[c].userId
             /\ \A sch \in schedules : sch.Input.userId # creates[c].userId)

\* A create for the unregistered identifier was answered, after another
\* player's guess had been written and scheduled
C17_Witness ==
  \E c \in DOMAIN creates :
     /\ creates[c].userId = "p0"
     /\ creates[c].resp # Absent
     /\ Get(creates[c].resp).statusCode = HTTP_NOT_FOUND
     /\ guesses # << >>
     /\ schedules # {}

\* C18: a create whose generated identifier exists in the store is answered
\* 409, the stored guess with that identifier is unchanged and no scheduler
\* request is made.
C18_DuplicateIdentifierConflict ==
  /\ [][\A c \in DOMAIN creates :
          (creates[c].pc = "put" /\ creates'[c].pc # "put"
           /\ Get(creates[c].guess).guessId \in DOMAIN guesses)
          => /\ creates'[c].pc = "done"
             /\ Get(creates'[c].resp).statusCode = HTTP_CONFLICT
             /\ guesses' = guesses
             /\ schedules' = schedules]_vars
  /\ [](\A c \in DOMAIN creates :
          (creates[c].resp # Absent /\ Get(creates[c].resp).code = "CONFLICT_ERROR")
          => ~creates[c].written /\ creates[c].scheduled = "no")

\* A create drew the identifier of a stored guess and was answered 409
C18_Witness ==
  \E c \in DOMAIN creates :
     /\ creates[c].resp # Absent
     /\ Get(creates[c].resp).code = "CONFLICT_ERROR"
     /\ Get(creates[c].guess).guessId \in DOMAIN guesses
     /\ guesses[Get(creates[c].guess).guessId] # Get(creates[c].guess)

\* C19: for every negative delta the update applies only if the stored
\* score is at least |delta|, and then lowers the score by exactly |delta|;
\* otherwise the score keeps its value.
C19_DecrementByAnyDelta ==
  [][\A s \in DOMAIN settles :
       LET owner == settles[s].userId
           old == ScoreOf(players[owner])
           new == ScoreOf(players'[owner])
           magnitude == 0 - settles[s].scoreChange
       IN  settles[s].scoreChange < 0 =>
             /\ ScoreUpdateServed(s) =>
                  IF old >= magnitude THEN new = old - magnitude ELSE new = old
             /\ ScoreFallbackServed(s) => new = old]_vars

\* C20: whatever the interleaving of the adjustments of one player, the
\* stored score is never negative, every increment the store serves raises
\* the score it finds by its delta, and the score is lowered only by a
\* decrement that the store serves, by 1.
C20_ConcurrentAdjustmentsAreSafe ==
  /\ [](\A p \in Registered : ScoreOf(players[p]) >= 0)
  /\ [][\A s \in DOMAIN settles :
          LET owner == settles[s].userId
          IN  /\ (ScoreUpdateServed(s) /\ settles[s].scoreChange >= 0) =>
                   ScoreOf(players'[owner])
                     = ScoreOf(players[owner]) + settles[s].scoreChange
              /\ ScoreFallbackServed(s) =>
                   ScoreOf(players'[owner]) = ScoreOf(players[owner])]_vars
  /\ [][\A p \in Registered :
          ScoreOf(players'[p]) < ScoreOf(players[p]) =>
            /\ ScoreOf(players'[p]) = ScoreOf(players[p]) - 1
            /\ \E s \in DOMAIN settles :
                 /\ settles[s].userId = p
                 /\ settles[s].scoreChange < 0
                 /\ ScoreUpdateServed(s)
                 /\ settles'[s].scoreUpdate = "ok"]_vars

\* An increment was served between a decrement's failed conditional update
\* and its follow-up update, and the follow-up kept the incremented score
C20_Witness ==
  \E s1, s2 \in DOMAIN settles :
     /\ settles[s1].userId = settles[s2].userId
     /\ settles[s1].scoreChange = SCORE_LOSS
     /\ settles[s1].scoreUpdate = "ok" /\ settles[s1].scoreDelta = 0
     /\ settles[s2].scoreChange = SCORE_WIN
     /\ settles[s2].scoreUpdate = "ok" /\ settles[s2].scoreDelta = 1
     /\ Get(settles[s1].updatedPlayer).score = Some(1)
     /\ players[settles[s1].userId].score = Some(1)

\* Settle s had its guess update served and its score update rejected
GuessSettledScoreFailed(proc) ==
  proc.guessUpdate = "ok" /\ proc.scoreUpdate = "failed"

\* C22: when the guess update of a settle is served and its score update is
\* rejected, both updates were attempted, the guess is stored as WON or
\* LOST, the rejected update left the players table as it was, the settle
\* answers 500, and no settle that begins afterwards for that guess starts
\* a score update.
C22_ScoreFailureLeavesGuessSettled ==
  /\ [](\A s \in DOMAIN settles :
          /\ settles[s].pc = "update" =>
                settles[s].guessUpdate # "none" /\ settles[s].scoreUpdate # "none"
          /\ GuessSettledScoreFailed(settles[s]) =>
                /\ Settled(guesses[settles[s].guessId].status)
                /\ settles[s].scoreDelta = 0
                /\ settles[s].updatedPlayer = Absent
                /\ settles[s].resp =
                     Some(errorResponse(HTTP_INTERNAL_SERVER_ERROR, "INTERNAL_ERROR")))
  /\ [][\A s \in DOMAIN settles :
          (settles[s].scoreUpdate \in {"pending", "fallback"}
           /\ settles'[s].scoreUpdate = "failed") => players' = players]_vars
  /\ [][\A s, t \in DOMAIN settles :
          (GuessSettledScoreFailed(settles[s]) /\ SettleBegins(t)
           /\ settles'[t].guessId = settles[s].guessId)
          => NoSettleEffect(t) /\ settles'[t].scoreUpdate = "none"]_vars

\* After such a settle, a second settle of the guess was answered with the
\* stored outcome
C22_Witness ==
  \E s, t \in DOMAIN settles :
     /\ GuessSettledScoreFailed(settles[s])
     /\ settles[t].guessId = settles[s].guessId
     /\ settles[t].resp # Absent
     /\ Get(settles[t].resp).statusCode = HTTP_OK
     /\ Get(settles[t].resp).data.message = "Guess already resolved"
     /\ settles[t].scoreUpdate = "none"

\* C28: a stored guess has resolvePrice and resolvedAt exactly when its
\* status is WON or LOST; an ACTIVE guess has neither.
C28_ResolutionFieldsIffTerminal ==
  \A g \in DOMAIN guesses :
     /\ guesses[g].status \in {"ACTIVE", "WON", "LOST"}
     /\ guesses[g].resolvePrice # Absent <=> Settled(guesses[g].status)
     /\ guesses[g].resolvedAt # Absent <=> Settled(guesses[g].status)

\* A settled guess and an ACTIVE guess are stored side by side
C28_Witness ==
  \E g, h \in DOMAIN guesses :
     /\ Settled(guesses[g].status)
     /\ guesses[g].resolvePrice # Absent /\ guesses[g].resolvedAt # Absent
     /\ guesses[h].status = "ACTIVE"

\* Settle s has come to an end with its score update served
AttemptAdjustedScore(proc) ==
  proc.scoreUpdate = "ok" /\ proc.guessUpdate \in {"ok", "failed"}

\* C29: a settlement attempt that begins after an earlier attempt for the
\* same guess has adjusted the score and come to an end, also one whose guess
\* update failed, starts no further score update.
C29_RetryDoesNotAdjustAgain ==
  [][\A s, t \in DOMAIN settles :
       (AttemptAdjustedScore(settles[s]) /\ settles[s].pc = "done"
        /\ SettleBegins(t) /\ settles'[t].guessId = settles[s].guessId)
       => settles'[t].scoreUpdate = "none"]_vars

\* The outcome the stored fields of a guess call for
OutcomeOfStored(guess) ==
  IF \/ guess.direction = "up" /\ Get(guess.resolvePrice) > guess.currentPrice
     \/ guess.direction = "down" /\ Get(guess.resolvePrice) <= guess.currentPrice
  THEN "WON" ELSE "LOST"

\* C30: whatever the interleaving of settles, a stored terminal guess has
\* the status its own direction, snapshot price and resolvePrice call for.
C30_StoredOutcomeMatchesPrices ==
  \A g \in DOMAIN guesses :
     Settled(guesses[g].status) => guesses[g].status = OutcomeOfStored(guesses[g])

\* Two settles with different outcomes have both written the same guess
C30_Witness ==
  \E s, t \in DOMAIN settles :
     /\ settles[s].guessId = settles[t].guessId
     /\ settles[s].guessUpdate = "ok" /\ settles[t].guessUpdate = "ok"
     /\ settles[s].status = "WON" /\ settles[t].status = "LOST"
     /\ Settled(guesses[settles[s].guessId].status)

\* C26: once the cache holds a price it holds one ever after, whatever the
\* refreshes come to, and every read that finds a price in the cache
\* returns a price and does not throw.
C26_PopulatedCacheStaysPopulated ==
  /\ [][Truthy(priceCache.price) => Truthy(priceCache'.price)]_vars
  /\ [](\A i \in DOMAIN reads :
          (reads[i].pc = "done" /\ Truthy(reads[i].entry.price))
          => /\ ~reads[i].threw
             /\ reads[i].result # Absent
             /\ Truthy(Get(reads[i].result).price))

\* After a first read, a refresh during which the primary source failed and
\* a third read have both returned a price
C26_Witness ==
  /\ Len(reads) = 3
  /\ reads[3].pc = "done"
  /\ Truthy(reads[2].entry.price)
  /\ reads[2].fetched /\ reads[2].primaryFailed
  /\ Truthy(Get(reads[2].result).price)
  /\ Truthy(Get(reads[3].result).price)
  /\ Truthy(priceCache.price)

\* C27: create and settle take their price from the primary-or-fallback
\* fetch: the price is one that fetch returns, no read of the cache is made,
\* and the cached price and its fetch instant stay as they were.
C27_WritePathBypassesCache ==
  /\ [][priceCache' = priceCache /\ reads' = reads]_vars
  /\ [](\A c \in DOMAIN creates :
          creates[c].guess # Absent =>
            Get(creates[c].guess).currentPrice \in getBitcoinPriceWithFallback)
  /\ [](\A s \in DOMAIN settles :
          settles[s].currentPrice # Absent =>
            Get(settles[s].currentPrice) \in getBitcoinPriceWithFallback)

\* A create and a settle have fetched prices, and the cache is as it was
C27_Witness ==
  /\ \E c \in DOMAIN creates : creates[c].guess # Absent
  /\ \E s \in DOMAIN settles : settles[s].currentPrice # Absent
  /\ priceCache = EmptyCache
  /\ reads = << >>

\* C24: the guess that a create writes is ACTIVE, is owned by the player of
\* the request, has the direction of the request as validated, a snapshot
\* price that the primary-or-fallback fetch returned during the create, the
\* creation time of the create and a resolveAt exactly 60 seconds after it;
\* the other stored guesses are left as they were.
C24_WrittenGuessIsWellFormed ==
  [][\A c \in DOMAIN creates :
       (creates[c].pc = "put" /\ creates'[c].pc = "schedule") =>
         LET id == Get(creates[c].guess).guessId
             item == guesses'[id]
         IN  /\ id \notin DOMAIN guesses
             /\ item.guessId = id
             /\ item.status = "ACTIVE"
             /\ item.playerId = creates[c].userId
             /\ item.direction = toLowerCaseTrim(creates[c].requested)
             /\ item.direction \in {"up", "down"}
             /\ item.currentPrice \in getBitcoinPriceWithFallback
             /\ item.createdAt = Get(creates[c].timestamp)
             /\ item.resolveAt = item.createdAt + 60000
             /\ item.resolvePrice = Absent /\ item.resolvedAt = Absent
             /\ \A g \in DOMAIN guesses : guesses'[g] = guesses[g]]_vars

\* A create that asked for "Down " was answered 201 and its guess is stored
\* with direction down, created after the clock had advanced
C24_Witness ==
  \E c \in DOMAIN creates :
     /\ creates[c].resp # Absent
     /\ Get(creates[c].resp).statusCode = HTTP_CREATED
     /\ creates[c].requested = "Down "
     /\ Get(creates[c].guess).guessId \in DOMAIN guesses
     /\ guesses[Get(creates[c].guess).guessId].direction = "down"
     /\ guesses[Get(creates[c].guess).guessId].createdAt > 0

\* C23: the instant requested from the Scheduler for a guess is the stored
\* resolveAt of the guess, creation time plus 60 seconds, and so never
\* earlier than it.
C23_ScheduledAtResolveAt ==
  \A sch \in schedules :
     sch.Name \in DOMAIN guesses =>
       /\ sch.runAt = guesses[sch.Name].resolveAt
       /\ sch.runAt >= guesses[sch.Name].createdAt + GUESS_RESOLUTION_DELAY

\* C21: the primary fetch succeeds only for a response with a well-formed
\* numeric price field; any other response counts as a failure of the
\* primary source and leads to the fallback price, so that the price
\* returned is always a number.
C21_OnlyNumericPriceAccepted ==
  \A i \in DOMAIN fetches :
     /\ fetches[i].primaryResolved => fetches[i].numericField
     /\ ~fetches[i].numericField => fetches[i].fallback
     /\ fetches[i].priceType = "number"

\* C25: every price of the fallback generator is a whole number of cents
\* from 45000.00 to 55000.00, the bounds included.
C25_FallbackPriceInRange ==
  \A i \in DOMAIN fetches :
     fetches[i].fallback =>
       /\ fetches[i].cents # Absent
       /\ Get(fetches[i].cents) \in (FALLBACK_PRICE_MIN * 100)..(FALLBACK_PRICE_MAX * 100)
       /\ Get(fetches[i].cents) >= 4500000
       /\ Get(fetches[i].cents) <= 5500000

\* The generator gave its lowest price after a timeout and, for the largest
\* draw, a price above the middle of the range after an unparsable body
C25_Witness ==
  /\ Len(fetches) = 2
  /\ fetches[1].kind = "timeout" /\ fetches[1].fallback
  /\ fetches[1].cents = Some(FALLBACK_PRICE_MIN * 100)
  /\ fetches[2].kind = "unparsable" /\ fetches[2].fallback
  /\ Get(fetches[2].cents) > 5000000


\* C31: a settlement never takes a guess out of ACTIVE before the guess's
\* stored resolveAt: every stored guess that is WON or LOST was resolved at
\* an instant not earlier than its resolveAt, whichever trigger settled it.
C31_NoSettlementBeforeResolveAt ==
  \A g \in DOMAIN guesses :
     guesses[g].status # "ACTIVE" =>
       /\ guesses[g].resolvedAt # Absent
       /\ Get(guesses[g].resolvedAt) >= guesses[g].resolveAt


\* C32: under any interleaving of concurrent refreshes the fetch instant in
\* the price cache never decreases, and the stored price and fetch instant
\* always come from the same refresh.
C32_CacheInstantNeverDecreases ==
  /\ [][priceCache.timestamp # Absent =>
          /\ priceCache'.timestamp # Absent
          /\ Get(priceCache'.timestamp) >= Get(priceCache.timestamp)]_vars
  /\ [](priceCache # EmptyCache =>
          \E r \in DOMAIN reads :
             /\ reads[r].pc = "done" /\ reads[r].fetched
             /\ priceCache.price = Get(reads[r].fetch).price
             /\ priceCache.timestamp = Some(reads[r].start))

\* C32 as amended: under any interleaving of concurrent refreshes the cache
\* changes only when a fetch returns, and it then holds the price of that
\* fetch together with the instant at which that refresh started (the last
\* refresh to return wins, so the stored instant may decrease).
C32_CacheHoldsLastReturnedRefresh ==
  [][priceCache' # priceCache =>
       \E r \in RefreshesInFlight :
          /\ reads'[r].pc = "done"
          /\ priceCache'.price = Get(reads'[r].fetch).price
          /\ priceCache'.timestamp = Some(reads[r].start)
          /\ reads'[r].result = Some(priceCache')]_vars

\* Two refreshes overlapped and both wrote the cache; the one that started
\* first returned last, and the cache holds its price and its instant
C32_Witness ==
  \E a, b \in DOMAIN reads :
     /\ reads[a].pc = "done" /\ reads[a].fetched
     /\ reads[b].pc = "done" /\ reads[b].fetched
     /\ reads[a].start < reads[b].start
     /\ reads[b].result = Some([price |-> Get(reads[b].fetch).price,
                                timestamp |-> Some(reads[b].start)])
     /\ Get(reads[a].fetch).price # Get(reads[b].fetch).price
     /\ priceCache = [price |-> Get(reads[a].fetch).price,
                      timestamp |-> Some(reads[a].start)]


\* C33: a create issues its scheduler request only after its guess has been
\* written to the store: every guess identifier with a schedule is in the
\* store, a schedule is added only by a create whose write succeeded, for
\* the guess it wrote, and a create that failed before or at the write has
\* issued no scheduler request.
C33_ScheduleOnlyAfterWrite ==
  /\ [](\A sch \in schedules :
          /\ sch.Name \in DOMAIN guesses
          /\ sch.Input.guessId = sch.Name)
  /\ [](\A c \in DOMAIN creates :
          ~creates[c].written => creates[c].scheduled = "no")
  /\ [][schedules' # schedules =>
          \E c \in DOMAIN creates :
             /\ creates[c].pc = "schedule" /\ creates[c].written
             /\ creates'[c].scheduled = "ok"
             /\ Get(creates[c].guess).guessId \in DOMAIN guesses
             /\ \E sch \in schedules' :
                  /\ sch.Name = Get(creates[c].guess).guessId
                  /\ schedules' = schedules \cup {sch}]_vars
  /\ [][\A c \in DOMAIN creates :
          (creates[c].pc # "done" /\ creates'[c].pc = "done"
             /\ ~creates'[c].written) =>
             schedules' = schedules]_vars

\* One create wrote its guess and had it scheduled; another was refused at
\* the store write and scheduled nothing
C33_Witness ==
  /\ \E c \in DOMAIN creates :
        /\ creates[c].written /\ creates[c].scheduled = "ok"
        /\ \E sch \in schedules : sch.Name = Get(creates[c].guess).guessId
  /\ \E c \in DOMAIN creates :
        /\ creates[c].pc = "done" /\ ~creates[c].written
        /\ creates[c].guess # Absent
        /\ creates[c].resp = Some(errorResponse(HTTP_CONFLICT, "CONFLICT_ERROR"))
        /\ creates[c].scheduled = "no"
  /\ Cardinality(schedules) = 1

====
